---- MODULE Spec2Model ----
(***************************************************************************)
(* A model of the Facebook posts search scraper:                           *)
(*   src/src/extractors/facebook_parser.py  (FacebookPostParser)           *)
(*   src/src/main.py                        (run_scraper, main)            *)
(*                                                                         *)
(* Conventions.  A Python Optional value is a sequence of length at most   *)
(* one: None is <<>> and a value v is <<v>>.  A Python str whose           *)
(* characters matter (text, URLs, labels) is a sequence of one-character   *)
(* strings; an identifier that is only compared is a TLA+ string.          *)
(*                                                                         *)
(* Specifications, each over the same variables with the others idle:      *)
(*   Spec            passes of extract_posts sharing seen_post_ids         *)
(*   SpecCount       _parse_engagement_number on one text                  *)
(*   SpecEngagement  _parse_engagement over the text nodes of one block    *)
(*   SpecTime        the timestamp part of _parse_article                  *)
(*   SpecRun         run_scraper under main                                *)
(***************************************************************************)
EXTENDS Integers, Sequences, FiniteSets, TLC

VARIABLES
    \* FacebookPostParser.extract_posts
    pc,             \* "idle" | "loop" | "return": position in extract_posts
    article_handles,\* the handles query_selector_all returned for this pass
    idx,            \* number of handles the for loop has consumed
    posts,          \* the pass's result list
    seen_post_ids,  \* the session's set of seen ids (shared by all passes)
    max_posts,      \* Optional[int] of the current pass
    hashseed,       \* the process's string-hash seed (fixed per process)
    seen_at_call,   \* seen_post_ids when the current pass was called
    parse_calls,    \* calls of _parse_article made by the current pass
    returned,       \* concatenation of the lists returned by all passes
    passes,         \* number of extract_posts calls made
    \* FacebookPostParser._parse_engagement_number
    count_pc,       \* "idle" | "search" | "float" | "scale" | "done"
    count_text,     \* the argument text
    number_str,     \* match.group(1) with the commas removed
    count_value,    \* float(number_str), as a fraction [num, den]
    count_out,      \* the return value, an Optional[int]
    \* FacebookPostParser._parse_engagement
    eng_pc,         \* "idle" | "loop" | "done"
    nodes,          \* the nodes query_selector_all returned
    node_idx,       \* number of nodes the for loop has consumed
    likes, comments, shares,    \* the three Optional[int] locals
    \* FacebookPostParser._parse_article, timestamp part
    time_pc,        \* "idle" | "query" | "datetime" | "text" | "utime" | "default" | "done"
    time_node,      \* what the DOM reads of the time node yield (the input)
    now,            \* int(time.time())
    time_str,       \* Optional[str]
    timestamp,      \* Optional[int]
    \* run_scraper and main
    run_pc,         \* position in run_scraper / main
    scope,          \* the ScrollManager scope: "none" | "entered" | "exited"
    run_posts,      \* the local posts: None while unbound
    pending,        \* the exception in flight, "none" without one
    events          \* the calls made so far, in order

extractVars == <<pc, article_handles, idx, posts, seen_post_ids, max_posts, hashseed,
                 seen_at_call, parse_calls, returned, passes>>

countVars == <<count_pc, count_text, number_str, count_value, count_out>>

engVars == <<eng_pc, nodes, node_idx, likes, comments, shares>>

timeVars == <<time_pc, time_node, now, time_str, timestamp>>

runVars == <<run_pc, scope, run_posts, pending, events>>

vars == <<extractVars, countVars, engVars, timeVars, runVars>>

-----------------------------------------------------------------------------
(* Bounds *)

MaxBlocks == 3
MaxPasses == 2
MaxLimit == 2
NumSeeds == 2
MaxTextLen == 3
MaxNodes == 3
MaxRunPosts == 2

-----------------------------------------------------------------------------
(* Python values *)

None == <<>>
Some(v) == <<v>>

\* str.strip(): leading and trailing whitespace removed.
RECURSIVE lstrip(_)
lstrip(s) == IF s # <<>> /\ Head(s) = " " THEN lstrip(Tail(s)) ELSE s

RECURSIVE rstrip(_)
rstrip(s) == IF s # <<>> /\ s[Len(s)] = " " THEN rstrip(SubSeq(s, 1, Len(s) - 1)) ELSE s

strip(s) == rstrip(lstrip(s))

\* not x, for an Optional[str] given by its characters: None or "".
FalsyText(o) == o = None \/ o[1] = <<>>

\* (x or ""): the string of an Optional[str], "" for None and for "".
OrEmpty(o) == IF o = None THEN <<>> ELSE o[1]

\* abs(hash(base)) over the characters of base.  CPython's str hash is a
\* keyed function fixed for the life of the process; the model keeps what
\* the code relies on (a deterministic signed integer per string and seed)
\* in a small range, so that collisions, and collisions made by abs, occur.
HashMod == 5

CharCode(c) == CASE c = " " -> 1 [] c = "h" -> 2 [] c = "i" -> 3 [] c = "u" -> 4 [] OTHER -> 5

RECURSIVE PolyHash(_, _)
PolyHash(s, seed) ==
    IF s = <<>> THEN seed
    ELSE (PolyHash(Tail(s), seed) * (seed + 2) + CharCode(Head(s))) % HashMod

hash(base) == PolyHash(base, hashseed) - 2

abs(n) == IF n < 0 THEN -n ELSE n

\* str(value) of a JSON scalar: a string is itself, an int its decimal form.
str(value) == IF value.t = "int" THEN ToString(value.v) ELSE value.v

-----------------------------------------------------------------------------
(* Content blocks: what the DOM reads of one article handle yield. *)

JStr(s) == [t |-> "str", v |-> s]
JInt(n) == [t |-> "int", v |-> n]
JNull == [t |-> "null", v |-> ""]

\* The data-ft attribute: absent, not JSON, JSON that is no object, or an
\* object given as a function from the keys it holds to their values.
FtAbsent == [kind |-> "absent", obj |-> <<>>]
FtMalformed == [kind |-> "malformed", obj |-> <<>>]
FtList == [kind |-> "list", obj |-> <<>>]
FtDict(d) == [kind |-> "dict", obj |-> d]

Article(raises, ft, text, url) ==
    [raises |-> raises, data_ft_raw |-> ft, text |-> text, url |-> url]

Hi == <<"h", "i">>

Blocks ==
    { Article(TRUE, FtAbsent, None, None),
      Article(FALSE, FtDict([k \in {"top_level_post_id"} |-> JStr("abc123")]), None, None),
      Article(FALSE, FtDict([k \in {"top_level_post_id", "mf_story_key"} |->
                  IF k = "top_level_post_id" THEN JNull ELSE JStr("s1")]), Some(Hi), None),
      Article(FALSE, FtDict([k \in {"mf_story_key"} |-> JInt(1)]), None, Some(<<"u">>)),
      Article(FALSE, FtAbsent, Some(<<>>), None),
      Article(FALSE, FtMalformed, Some(Hi), None),
      Article(FALSE, FtList, Some(<<" ">>), Some(<<>>)) }

-----------------------------------------------------------------------------
(* FacebookPostParser._parse_engagement_number *)

Digits == {"0", "1", "2", "3", "4", "5", "6", "7", "8", "9"}

DigitValue(c) ==
    CASE c = "0" -> 0 [] c = "1" -> 1 [] c = "2" -> 2 [] c = "3" -> 3 [] c = "4" -> 4
      [] c = "5" -> 5 [] c = "6" -> 6 [] c = "7" -> 7 [] c = "8" -> 8 [] c = "9" -> 9

\* The character class [\d.,] of the pattern.
NumClass == Digits \cup {".", ","}

\* Where re.search(r"([\d.,]+)\s*[KkMm]?", text) matches: the leftmost
\* character of the class, 0 when there is none (no match).
MatchStart(text) ==
    IF \E i \in DOMAIN text : text[i] \in NumClass
    THEN CHOOSE i \in DOMAIN text :
             text[i] \in NumClass /\ \A j \in 1..(i - 1) : text[j] \notin NumClass
    ELSE 0

\* match.group(1): the greedy run of the class from the match start.
RECURSIVE RunFrom(_, _)
RunFrom(text, i) ==
    IF i <= Len(text) /\ text[i] \in NumClass
    THEN <<text[i]>> \o RunFrom(text, i + 1)
    ELSE <<>>

group1(text) == RunFrom(text, MatchStart(text))

NotComma(c) == c # ","

IsDot(c) == c = "."

\* float(s) for s over digits and ".": a ValueError unless s holds a digit
\* and at most one ".".
FloatOk(s) ==
    /\ \E i \in DOMAIN s : s[i] \in Digits
    /\ Len(SelectSeq(s, IsDot)) <= 1

RECURSIVE Pow10(_)
Pow10(n) == IF n = 0 THEN 1 ELSE 10 * Pow10(n - 1)

RECURSIVE DecimalValue(_)
DecimalValue(s) ==
    IF s = <<>> THEN 0
    ELSE IF s[Len(s)] = "." THEN DecimalValue(SubSeq(s, 1, Len(s) - 1))
    ELSE 10 * DecimalValue(SubSeq(s, 1, Len(s) - 1)) + DigitValue(s[Len(s)])

\* Number of digits after the ".", 0 without one.
FractionDigits(s) ==
    IF \E i \in DOMAIN s : s[i] = "."
    THEN Len(s) - (CHOOSE i \in DOMAIN s : s[i] = ".")
    ELSE 0

\* float(s) as the fraction num / den it denotes.  The binary double and
\* its product with the multiplier give the same integer for every text of
\* up to five characters over TextAlphabet and for ExampleTexts; with
\* longer fractions the product can land one below the floor
\* (".5115m" gives 511499).
float(s) == [num |-> DecimalValue(s), den |-> Pow10(FractionDigits(s))]

\* re.search(r"[Kk]", text) / re.search(r"[Mm]", text): anywhere in text.
multiplier(text) ==
    IF \E i \in DOMAIN text : text[i] \in {"K", "k"} THEN 1000
    ELSE IF \E i \in DOMAIN text : text[i] \in {"M", "m"} THEN 1000000
    ELSE 1

\* int(value * multiplier) of a non-negative value.
IntOfProduct(value, mult) == (value.num * mult) \div value.den

_parse_engagement_number(text) ==
    IF MatchStart(text) = 0 THEN None
    ELSE LET s == SelectSeq(group1(text), NotComma)
         IN  IF ~FloatOk(s) THEN None
             ELSE Some(IntOfProduct(float(s), multiplier(text)))

TextAlphabet == {"1", "5", ".", ",", " ", "K", "m", "e"}

\* The labels the documentation names, beside every short text.
ExampleTexts ==
    { <<"2", ".", "4", "K">>,
      <<"1", ",", "2", "3", "4">>,
      <<"1", "5", " ", "C", "o", "m", "m", "e", "n", "t", "s">>,
      <<"n", "o", " ", "d", "a", "t", "a">> }

CountTexts == UNION { [1..n -> TextAlphabet] : n \in 0..MaxTextLen } \cup ExampleTexts

CountIdle ==
    /\ count_pc = "idle"
    /\ count_text = <<>>
    /\ number_str = <<>>
    /\ count_value = [num |-> 0, den |-> 1]
    /\ count_out = None

CountInit ==
    /\ count_pc = "search"
    /\ count_text \in CountTexts
    /\ number_str = <<>>
    /\ count_value = [num |-> 0, den |-> 1]
    /\ count_out = None

\* match = re.search(...); if not match: return None;
\* number_str = match.group(1).replace(",", "")
CountSearch ==
    /\ count_pc = "search"
    /\ IF MatchStart(count_text) = 0
       THEN /\ count_pc' = "done"
            /\ count_out' = None
            /\ UNCHANGED number_str
       ELSE /\ count_pc' = "float"
            /\ number_str' = SelectSeq(group1(count_text), NotComma)
            /\ UNCHANGED count_out
    /\ UNCHANGED <<count_text, count_value, extractVars, engVars, timeVars, runVars>>

\* try: value = float(number_str) except ValueError: return None
CountFloat ==
    /\ count_pc = "float"
    /\ IF FloatOk(number_str)
       THEN /\ count_pc' = "scale"
            /\ count_value' = float(number_str)
            /\ UNCHANGED count_out
       ELSE /\ count_pc' = "done"
            /\ count_out' = None
            /\ UNCHANGED count_value
    /\ UNCHANGED <<count_text, number_str, extractVars, engVars, timeVars, runVars>>

\* The multiplier from the letters of text; return int(value * multiplier)
CountScale ==
    /\ count_pc = "scale"
    /\ count_out' = Some(IntOfProduct(count_value, multiplier(count_text)))
    /\ count_pc' = "done"
    /\ UNCHANGED <<count_text, number_str, count_value, extractVars, engVars, timeVars, runVars>>

CountNext == CountSearch \/ CountFloat \/ CountScale

-----------------------------------------------------------------------------
(* FacebookPostParser._parse_engagement *)

UpperCase == <<"A", "B", "C", "D", "E", "F", "G", "H", "I", "J", "K", "L", "M",
               "N", "O", "P", "Q", "R", "S", "T", "U", "V", "W", "X", "Y", "Z">>

LowerCase == <<"a", "b", "c", "d", "e", "f", "g", "h", "i", "j", "k", "l", "m",
               "n", "o", "p", "q", "r", "s", "t", "u", "v", "w", "x", "y", "z">>

LowerChar(c) ==
    IF \E i \in DOMAIN UpperCase : UpperCase[i] = c
    THEN LowerCase[CHOOSE i \in DOMAIN UpperCase : UpperCase[i] = c]
    ELSE c

\* str.lower()
lower(s) == [i \in DOMAIN s |-> LowerChar(s[i])]

\* The Python test  w in s  on strings.
Contains(s, w) ==
    \E i \in 1..(Len(s) - Len(w) + 1) : SubSeq(s, i, i + Len(w) - 1) = w

KwLike == <<"l", "i", "k", "e">>
KwComment == <<"c", "o", "m", "m", "e", "n", "t">>
KwShare == <<"s", "h", "a", "r", "e">>

\* Mutant: a matching fragment assigns its parsed value even when it is None.
Classify_overwrite(txt, st) ==
    IF Contains(lower(txt), KwLike)
    THEN [st EXCEPT !.likes = _parse_engagement_number(txt)]
    ELSE IF Contains(lower(txt), KwComment)
    THEN [st EXCEPT !.comments = _parse_engagement_number(txt)]
    ELSE IF Contains(lower(txt), KwShare)
    THEN [st EXCEPT !.shares = _parse_engagement_number(txt)]
    ELSE st

\* The if / elif / elif of one loop iteration on the stripped text txt, on
\* the locals st = [likes, comments, shares].
Classify(txt, st) ==
    IF Contains(lower(txt), KwLike)
    THEN IF _parse_engagement_number(txt) # None
         THEN [st EXCEPT !.likes = _parse_engagement_number(txt)] ELSE st
    ELSE IF Contains(lower(txt), KwComment)
    THEN IF _parse_engagement_number(txt) # None
         THEN [st EXCEPT !.comments = _parse_engagement_number(txt)] ELSE st
    ELSE IF Contains(lower(txt), KwShare)
    THEN IF _parse_engagement_number(txt) # None
         THEN [st EXCEPT !.shares = _parse_engagement_number(txt)] ELSE st
    ELSE st

Node(raises, text) == [raises |-> raises, inner_text |-> text]

\* The text nodes of a block: a node whose inner_text() raises, and nodes
\* reading "5 likes", "Like", "2 Comments", "9 Comment Like", "3 shares",
\* " Share " and "hi".
EngNodes ==
    { Node(TRUE, <<>>),
      Node(FALSE, <<"5", " ", "l", "i", "k", "e", "s">>),
      Node(FALSE, <<"L", "i", "k", "e">>),
      Node(FALSE, <<"2", " ", "C", "o", "m", "m", "e", "n", "t", "s">>),
      Node(FALSE, <<"9", " ", "C", "o", "m", "m", "e", "n", "t", " ", "L", "i", "k", "e">>),
      Node(FALSE, <<"3", " ", "s", "h", "a", "r", "e", "s">>),
      Node(FALSE, <<" ", "S", "h", "a", "r", "e", " ">>),
      Node(FALSE, <<"h", "i">>) }

EngIdle ==
    /\ eng_pc = "idle"
    /\ nodes = <<>>
    /\ node_idx = 0
    /\ likes = None
    /\ comments = None
    /\ shares = None

\* likes = comments = shares = None; nodes = query_selector_all(selector)
EngInit ==
    /\ eng_pc = "loop"
    /\ nodes \in UNION { [1..n -> EngNodes] : n \in 0..MaxNodes }
    /\ node_idx = 0
    /\ likes = None
    /\ comments = None
    /\ shares = None

\* One iteration: txt = inner_text().strip() (continue when it raises),
\* then the keyword chain.
EngStep ==
    /\ eng_pc = "loop"
    /\ node_idx < Len(nodes)
    /\ LET node == nodes[node_idx + 1]
           st == IF node.raises
                 THEN [likes |-> likes, comments |-> comments, shares |-> shares]
                 ELSE Classify(strip(node.inner_text),
                               [likes |-> likes, comments |-> comments, shares |-> shares])
       IN  /\ likes' = st.likes
           /\ comments' = st.comments
           /\ shares' = st.shares
    /\ node_idx' = node_idx + 1
    /\ UNCHANGED <<eng_pc, nodes, extractVars, countVars, timeVars, runVars>>

\* return likes, comments, shares
EngReturn ==
    /\ eng_pc = "loop"
    /\ node_idx = Len(nodes)
    /\ eng_pc' = "done"
    /\ UNCHANGED <<nodes, node_idx, likes, comments, shares, extractVars, countVars, timeVars, runVars>>

EngNext == EngStep \/ EngReturn

-----------------------------------------------------------------------------
(* FacebookPostParser._parse_article, timestamp part *)

\* A character str.isdigit() accepts and int() rejects.
SuperscriptTwo == "SUPERSCRIPT TWO"

\* str.isdigit(): non-empty, every character a digit character.
isdigit(s) == s # <<>> /\ \A i \in DOMAIN s : s[i] \in Digits \cup {SuperscriptTwo}

\* int(s) raises ValueError on a character that is no decimal digit.
IntOk(s) == s # <<>> /\ \A i \in DOMAIN s : s[i] \in Digits

\* The outcome of one DOM read: it raises, or returns an Optional[str].
Read(raises, value) == [raises |-> raises, value |-> value]

DatetimeReads ==
    { Read(TRUE, None), Read(FALSE, None), Read(FALSE, Some(<<>>)),
      Read(FALSE, Some(<<"2", "0", "2", "4">>)) }

InnerTextReads == { Read(TRUE, None), Read(FALSE, Some(<<>>)), Read(FALSE, Some(<<"2", "h">>)) }

UtimeReads ==
    { Read(TRUE, None), Read(FALSE, None), Read(FALSE, Some(<<>>)),
      Read(FALSE, Some(<<"0">>)), Read(FALSE, Some(<<"0", "0">>)),
      Read(FALSE, Some(<<"7">>)), Read(FALSE, Some(<<"0", "1", "7">>)),
      Read(FALSE, Some(<<"1", "a">>)), Read(FALSE, Some(<<SuperscriptTwo>>)) }

\* The time node: found or not, and what its three reads yield.
TimeNodes ==
    [found : BOOLEAN, datetime : DatetimeReads, inner_text : InnerTextReads,
     data_utime : UtimeReads]

Clock == {100, 101}

TimeIdle ==
    /\ time_pc = "idle"
    /\ time_node = [found |-> FALSE, datetime |-> Read(FALSE, None),
                    inner_text |-> Read(FALSE, Some(<<>>)), data_utime |-> Read(FALSE, None)]
    /\ now = 100
    /\ time_str = None
    /\ timestamp = None

TimeInit ==
    /\ time_pc = "query"
    /\ time_node \in TimeNodes
    /\ now \in Clock
    /\ time_str = None
    /\ timestamp = None

\* time_node = query_selector(...); timestamp = None; time_str = None
TimeQuery ==
    /\ time_pc = "query"
    /\ time_str' = None
    /\ timestamp' = None
    /\ time_pc' = IF time_node.found THEN "datetime" ELSE "default"
    /\ UNCHANGED <<time_node, now, extractVars, countVars, engVars, runVars>>

\* try: time_str = get_attribute("datetime") except: time_str = None
TimeDatetime ==
    /\ time_pc = "datetime"
    /\ time_str' = IF time_node.datetime.raises THEN None ELSE time_node.datetime.value
    /\ time_pc' = IF FalsyText(time_str') THEN "text" ELSE "utime"
    /\ UNCHANGED <<time_node, now, timestamp, extractVars, countVars, engVars, runVars>>

\* if not time_str: try: time_str = inner_text() except: time_str = None
TimeText ==
    /\ time_pc = "text"
    /\ time_str' = IF time_node.inner_text.raises THEN None ELSE time_node.inner_text.value
    /\ time_pc' = "utime"
    /\ UNCHANGED <<time_node, now, timestamp, extractVars, countVars, engVars, runVars>>

\* if not timestamp: timestamp = int(time.time())
DefaultTimestamp(ts, clock) == IF ts = None \/ ts[1] = 0 THEN Some(clock) ELSE ts

\* try: time_attr = get_attribute("data-utime");
\*      if time_attr and time_attr.isdigit(): timestamp = int(time_attr)
\* except: timestamp = None
TimeUtime ==
    /\ time_pc = "utime"
    /\ LET r == time_node.data_utime
       IN  timestamp' =
               IF r.raises THEN None
               ELSE IF ~FalsyText(r.value) /\ isdigit(r.value[1])
               THEN IF IntOk(r.value[1]) THEN Some(DecimalValue(r.value[1])) ELSE None
               ELSE timestamp
    /\ time_pc' = "default"
    /\ UNCHANGED <<time_node, now, time_str, extractVars, countVars, engVars, runVars>>

\* The default, then post.time = time_str; post.timestamp = timestamp
TimeDefault ==
    /\ time_pc = "default"
    /\ timestamp' = DefaultTimestamp(timestamp, now)
    /\ time_pc' = "done"
    /\ UNCHANGED <<time_node, now, time_str, extractVars, countVars, engVars, runVars>>

TimeNext == TimeQuery \/ TimeDatetime \/ TimeText \/ TimeUtime \/ TimeDefault

-----------------------------------------------------------------------------
(* run_scraper and main *)

\* What a call into the browser surface or the exporter can raise.
Raisable == {"Exception", "KeyboardInterrupt"}

PostIds == {"p1", "p2", "p3"}

\* The lists scrape_search can return.
PostLists == UNION { [1..n -> PostIds] : n \in 0..MaxRunPosts }

RunIdle ==
    /\ run_pc = "idle"
    /\ scope = "none"
    /\ run_posts = None
    /\ pending = "none"
    /\ events = <<>>

RunInit ==
    /\ run_pc = "with"
    /\ scope = "none"
    /\ run_posts = None
    /\ pending = "none"
    /\ events = <<>>

NotRun == <<extractVars, countVars, engVars, timeVars>>

\* async with ScrollManager(...) as manager: __aenter__ returns, or raises
\* and the scope is never entered.
RunEnter ==
    /\ run_pc = "with"
    /\ events' = Append(events, "enter")
    /\ \/ /\ scope' = "entered"
          /\ run_pc' = "scrape"
          /\ UNCHANGED pending
       \/ \E e \in Raisable :
             /\ pending' = e
             /\ run_pc' = "raised"
             /\ UNCHANGED scope
    /\ UNCHANGED <<run_posts, NotRun>>

\* Mutant: without the context manager's guarantee, an exception of
\* scrape_search leaves run_scraper at once.
AfterScrapeRaised_noexit == "raised"

\* Where control goes when the body of the async with raises: to __aexit__.
AfterScrapeRaised == "aexit"

\* Where control goes when the body of the async with completes: to __aexit__.
AfterScrapeReturned == "aexit"

\* posts = await manager.scrape_search(query, parser, max_posts)
RunScrape ==
    /\ run_pc = "scrape"
    /\ events' = Append(events, "scrape_search")
    /\ \/ \E ps \in PostLists :
             /\ run_posts' = Some(ps)
             /\ run_pc' = AfterScrapeReturned
             /\ UNCHANGED pending
       \/ \E e \in Raisable :
             /\ pending' = e
             /\ run_pc' = AfterScrapeRaised
             /\ UNCHANGED run_posts
    /\ UNCHANGED <<scope, NotRun>>

\* __aexit__ at the end of the with block, on both paths.  It returns a
\* false value (an exception in flight goes on), returns a true value (the
\* exception is dropped), or raises.
RunExit ==
    /\ run_pc = "aexit"
    /\ events' = Append(events, "exit")
    /\ scope' = "exited"
    /\ \/ /\ run_pc' = IF pending = "none" THEN "after_with" ELSE "raised"
          /\ UNCHANGED pending
       \/ /\ pending # "none"
          /\ pending' = "none"
          /\ run_pc' = "after_with"
       \/ \E e \in Raisable :
             /\ pending' = e
             /\ run_pc' = "raised"
    /\ UNCHANGED <<run_posts, NotRun>>

\* if not posts: warning else: info.  posts is unbound when __aexit__
\* dropped the exception of scrape_search.
RunAfterWith ==
    /\ run_pc = "after_with"
    /\ IF run_posts = None
       THEN /\ pending' = "UnboundLocalError"
            /\ run_pc' = "raised"
       ELSE /\ run_pc' = "export"
            /\ UNCHANGED pending
    /\ UNCHANGED <<scope, run_posts, events, NotRun>>

\* export_posts(posts, output_path, export_format), which returns or raises.
RunExport ==
    /\ run_pc = "export"
    /\ events' = Append(events, "export")
    /\ \/ /\ run_pc' = "returned"
          /\ UNCHANGED pending
       \/ \E e \in Raisable :
             /\ pending' = e
             /\ run_pc' = "raised"
    /\ UNCHANGED <<scope, run_posts, NotRun>>

\* main: asyncio.run(run_scraper(...)) under try / except.
\* KeyboardInterrupt is logged and dropped, any other exception is logged
\* and raised again.
MainHandler ==
    /\ run_pc \in {"returned", "raised"}
    /\ run_pc' = IF run_pc = "returned" THEN "main_done"
                 ELSE IF pending = "KeyboardInterrupt" THEN "main_interrupted"
                 ELSE "main_raised"
    /\ UNCHANGED <<scope, run_posts, pending, events, NotRun>>

RunNext == RunEnter \/ RunScrape \/ RunExit \/ RunAfterWith \/ RunExport \/ MainHandler

-----------------------------------------------------------------------------
(* FacebookPostParser._parse_article, identity part *)

\* json.loads under try/except: {} for an absent or malformed attribute.
json_loads(raw) ==
    IF raw.kind = "dict" THEN [isdict |-> TRUE, obj |-> raw.obj]
    ELSE IF raw.kind = "list" THEN [isdict |-> FALSE, obj |-> <<>>]
    ELSE [isdict |-> TRUE, obj |-> <<>>]

\* The first key the object holds decides: its str(), or None for null.
RECURSIVE _safe_get_nested(_, _)
_safe_get_nested(data, keys) ==
    IF ~data.isdict \/ keys = <<>> THEN None
    ELSE IF Head(keys) \in DOMAIN data.obj
         THEN IF data.obj[Head(keys)].t = "null" THEN None
              ELSE Some(str(data.obj[Head(keys)]))
         ELSE _safe_get_nested(data, Tail(keys))

\* The fields of the FacebookPost the extractor's identity rules read.
_parse_article(article) ==
    [postId |-> _safe_get_nested(json_loads(article.data_ft_raw),
                                 <<"top_level_post_id", "mf_story_key">>),
     text |-> article.text,
     url |-> article.url]

-----------------------------------------------------------------------------
(* FacebookPostParser.extract_posts *)

OtherThanExtract == <<countVars, engVars, timeVars, runVars>>

Falsy(o) == o = None \/ o[1] = ""

\* Mutant: no check against seen_post_ids.
TryBody_nodedup(post, st) ==
    LET base == OrEmpty(post.text) \o OrEmpty(post.url)
        id == IF Falsy(post.postId) THEN ToString(abs(hash(base))) ELSE post.postId[1]
    IN  IF Falsy(post.postId) /\ strip(base) = <<>> THEN st
        ELSE [posts |-> Append(st.posts, [post EXCEPT !.postId = Some(id)]),
              seen |-> st.seen \cup {id}]

\* Mutant: the unidentifiable block is hashed and admitted like any other.
TryBody_nodiscard(post, st) ==
    LET base == OrEmpty(post.text) \o OrEmpty(post.url)
        id == IF Falsy(post.postId) THEN ToString(abs(hash(base))) ELSE post.postId[1]
    IN  IF id \in st.seen THEN st
        ELSE [posts |-> Append(st.posts, [post EXCEPT !.postId = Some(id)]),
              seen |-> st.seen \cup {id}]

\* Mutant: the record is appended with the id the metadata gave, the
\* synthesized id is only used for the seen check.
TryBody_noassign(post, st) ==
    LET base == OrEmpty(post.text) \o OrEmpty(post.url)
        id == IF Falsy(post.postId) THEN ToString(abs(hash(base))) ELSE post.postId[1]
    IN  IF Falsy(post.postId) /\ strip(base) = <<>> THEN st
        ELSE IF id \in st.seen THEN st
        ELSE [posts |-> Append(st.posts, post), seen |-> st.seen \cup {id}]

\* The try block of one loop iteration on a parsed post, on the loop state
\* st = [posts, seen]: continue (state unchanged) or admit.
TryBody(post, st) ==
    LET base == OrEmpty(post.text) \o OrEmpty(post.url)
        id == IF Falsy(post.postId) THEN ToString(abs(hash(base))) ELSE post.postId[1]
    IN  IF Falsy(post.postId) /\ strip(base) = <<>> THEN st
        ELSE IF id \in st.seen THEN st
        ELSE [posts |-> Append(st.posts, [post EXCEPT !.postId = Some(id)]),
              seen |-> st.seen \cup {id}]

\* try/except of one iteration: a raising _parse_article changes nothing.
Iteration(article, st) ==
    IF article.raises THEN st ELSE TryBody(_parse_article(article), st)

\* if max_posts is not None and len(posts) >= max_posts: break
Breaks(limit, ps) == limit # None /\ Len(ps) >= limit[1]

\* The whole for loop over handles from the loop state st, as a function:
\* [posts, seen] when the loop ends.
RECURSIVE ForLoop(_, _, _)
ForLoop(handles, limit, st) ==
    IF handles = <<>> THEN st
    ELSE LET st1 == Iteration(Head(handles), st)
         IN  IF Breaks(limit, st1.posts) THEN st1
             ELSE ForLoop(Tail(handles), limit, st1)

Snapshots == UNION { [1..n -> Blocks] : n \in 0..MaxBlocks }

Limits == {None} \cup { Some(l) : l \in 0..MaxLimit }

ExtractInit ==
    /\ pc = "idle"
    /\ article_handles = <<>>
    /\ idx = 0
    /\ posts = <<>>
    /\ seen_post_ids = {}
    /\ max_posts = None
    /\ hashseed \in 1..NumSeeds
    /\ seen_at_call = {}
    /\ parse_calls = 0
    /\ returned = <<>>
    /\ passes = 0

\* extract_posts not running (the other specifications).
ExtractIdle ==
    /\ pc = "idle"
    /\ article_handles = <<>>
    /\ idx = 0
    /\ posts = <<>>
    /\ seen_post_ids = {}
    /\ max_posts = None
    /\ hashseed = 1
    /\ seen_at_call = {}
    /\ parse_calls = 0
    /\ returned = <<>>
    /\ passes = 0

\* extract_posts is called: posts = [], the handles are queried.
Call ==
    /\ pc = "idle"
    /\ passes < MaxPasses
    /\ \E snapshot \in Snapshots, limit \in Limits :
          /\ article_handles' = snapshot
          /\ max_posts' = limit
          /\ pc' = IF snapshot = <<>> THEN "return" ELSE "loop"
    /\ idx' = 0
    /\ posts' = <<>>
    /\ seen_at_call' = seen_post_ids
    /\ parse_calls' = 0
    /\ passes' = passes + 1
    /\ UNCHANGED <<seen_post_ids, hashseed, returned, OtherThanExtract>>

\* One iteration of the for loop: the try block, then the limit check.
LoopStep ==
    /\ pc = "loop"
    /\ LET st == Iteration(article_handles[idx + 1], [posts |-> posts, seen |-> seen_post_ids])
       IN  /\ posts' = st.posts
           /\ seen_post_ids' = st.seen
           /\ pc' = IF Breaks(max_posts, st.posts) \/ idx + 1 = Len(article_handles)
                    THEN "return" ELSE "loop"
    /\ idx' = idx + 1
    /\ parse_calls' = parse_calls + 1
    /\ UNCHANGED <<article_handles, max_posts, hashseed, seen_at_call, returned, passes,
                   OtherThanExtract>>

\* return posts: the list goes to the caller and the frame is gone.
Return ==
    /\ pc = "return"
    /\ returned' = returned \o posts
    /\ pc' = "idle"
    /\ article_handles' = <<>>
    /\ idx' = 0
    /\ posts' = <<>>
    /\ max_posts' = None
    /\ parse_calls' = 0
    /\ seen_at_call' = seen_post_ids
    /\ UNCHANGED <<seen_post_ids, hashseed, passes, OtherThanExtract>>

Init == ExtractInit /\ CountIdle /\ EngIdle /\ TimeIdle /\ RunIdle

Next == Call \/ LoopStep \/ Return

Spec == Init /\ [][Next]_vars

InitCount == ExtractIdle /\ CountInit /\ EngIdle /\ TimeIdle /\ RunIdle

SpecCount == InitCount /\ [][CountNext]_vars

InitEngagement == ExtractIdle /\ CountIdle /\ EngInit /\ TimeIdle /\ RunIdle

SpecEngagement == InitEngagement /\ [][EngNext]_vars

InitTime == ExtractIdle /\ CountIdle /\ EngIdle /\ TimeInit /\ RunIdle

SpecTime == InitTime /\ [][TimeNext]_vars

InitRun == ExtractIdle /\ CountIdle /\ EngIdle /\ TimeIdle /\ RunInit

SpecRun == InitRun /\ [][RunNext]_vars

-----------------------------------------------------------------------------
(* Properties of extract_posts, checked under Spec *)

AllReturned == returned \o posts

\* C1: over any sequence of passes sharing one seen_post_ids set, the
\* concatenation of the returned lists holds every admitted postId exactly
\* once: no id occurs twice, however often a block is shown again.
C1_EachIdOnce ==
    /\ \A i, j \in DOMAIN AllReturned :
          AllReturned[i].postId = AllReturned[j].postId => i = j
    /\ \A id \in seen_post_ids : \E i \in DOMAIN AllReturned : AllReturned[i].postId = Some(id)

\* A second pass has been shown, again, a block whose id the first pass
\* returned, and has finished.
C1_Witness ==
    /\ passes = 2
    /\ pc = "return"
    /\ \E i \in DOMAIN returned : returned[i].postId = Some("abc123")
    /\ \E i \in 1..idx :
          /\ ~article_handles[i].raises
          /\ _parse_article(article_handles[i]).postId = Some("abc123")

\* C3 (as claimed): a pass with limit L >= 0 returns at most L records, and
\* _parse_article is called again only while fewer than L records have been
\* admitted in the pass.
C3_LimitRespected ==
    max_posts # None =>
        /\ Len(posts) <= max_posts[1]
        /\ (pc = "loop" /\ parse_calls >= 1) => Len(posts) < max_posts[1]

NoValue(obj, k) ==
    k \notin DOMAIN obj \/ obj[k].t = "null" \/ (obj[k].t = "str" /\ obj[k].v = "")

NoMetadataPostId(article) ==
    \/ article.data_ft_raw.kind # "dict"
    \/ /\ NoValue(article.data_ft_raw.obj, "top_level_post_id")
       /\ NoValue(article.data_ft_raw.obj, "mf_story_key")

EmptyOrAbsent(o) == o = None \/ o[1] = <<>>

Unidentifiable(article) ==
    NoMetadataPostId(article) /\ EmptyOrAbsent(article.text) /\ EmptyOrAbsent(article.url)

\* C4: processing a block with no metadata postId, empty or absent text and
\* empty or absent URL leaves the result list and seen_post_ids unchanged.
C4_UnidentifiableNeverAdmitted ==
    [][(pc = "loop" /\ idx' = idx + 1 /\ Unidentifiable(article_handles[idx + 1]))
         => (posts' = posts /\ seen_post_ids' = seen_post_ids)]_vars

\* Such a block, not a raising one, has been processed after a record was
\* admitted in the same pass.
C4_Witness ==
    /\ idx >= 2
    /\ Len(posts) >= 1
    /\ Unidentifiable(article_handles[idx])
    /\ ~article_handles[idx].raises

\* The postId the claim gives a block: top_level_post_id when it has a
\* value, else mf_story_key when it has a value, else the hash form.
ClaimedPostId(article) ==
    LET ft == article.data_ft_raw
        base == OrEmpty(article.text) \o OrEmpty(article.url)
    IN  IF ft.kind = "dict" /\ ~NoValue(ft.obj, "top_level_post_id")
        THEN str(ft.obj["top_level_post_id"])
        ELSE IF ft.kind = "dict" /\ ~NoValue(ft.obj, "mf_story_key")
        THEN str(ft.obj["mf_story_key"])
        ELSE ToString(abs(hash(base)))

\* C5 (as claimed): a record is admitted under the postId resolved in
\* priority order: top_level_post_id if it has a value, otherwise
\* mf_story_key if it has a value, and only otherwise the hash form.
C5_PriorityOrder ==
    [][(pc = "loop" /\ Len(posts') = Len(posts) + 1)
         => posts'[Len(posts')].postId = Some(ClaimedPostId(article_handles[idx + 1]))]_vars

NotRaising(article) == ~article.raises

\* C6 (as claimed): a pass returns what it would return, and leaves the
\* seen set it would leave, were the raising blocks absent from the snapshot.
C6_FailingBlockAsIfAbsent ==
    pc = "return" =>
        LET ref == ForLoop(SelectSeq(article_handles, NotRaising), max_posts,
                           [posts |-> <<>>, seen |-> seen_at_call])
        IN  posts = ref.posts /\ seen_post_ids = ref.seen

\* C7: every returned record has a non-null, non-empty postId, and that
\* postId is in seen_post_ids when its pass returns (and ever after).
C7_PostIdPopulated ==
    \A i \in DOMAIN AllReturned :
        /\ ~Falsy(AllReturned[i].postId)
        /\ AllReturned[i].postId[1] \in seen_post_ids

\* A pass returns a record whose id was synthesized (the metadata gave
\* none) next to one whose id came from the metadata.
C7_Witness ==
    /\ pc = "return"
    /\ \E i, j \in DOMAIN posts :
          /\ posts[i].postId = Some("abc123")
          /\ posts[j].text = Some(Hi)
          /\ posts[j].postId = Some(ToString(abs(hash(Hi))))

-----------------------------------------------------------------------------
(* Properties of _parse_engagement_number, checked under SpecCount *)

\* The scale letter the pattern's tail \s*[KkMm]? can take: the letter
\* right after the numeric run and any whitespace.
RECURSIVE SkipSpaces(_, _)
SkipSpaces(text, i) ==
    IF i <= Len(text) /\ text[i] = " " THEN SkipSpaces(text, i + 1) ELSE i

TrailingScale(text) ==
    LET i == SkipSpaces(text, MatchStart(text) + Len(group1(text)))
    IN  IF i > Len(text) THEN 1
        ELSE IF text[i] \in {"K", "k"} THEN 1000
        ELSE IF text[i] \in {"M", "m"} THEN 1000000
        ELSE 1

ClaimedCount(text) ==
    LET s == SelectSeq(group1(text), NotComma)
    IN  IF MatchStart(text) = 0 \/ ~FloatOk(s) THEN None
        ELSE Some((DecimalValue(s) * TrailingScale(text)) \div Pow10(FractionDigits(s)))

\* C2 (as claimed): the result is null without a numeric run and otherwise
\* floor(n * scale), the scale taken from the letter that trails the
\* number (1 when none does); "15 Comments" gives 15.
C2_TrailingScale ==
    count_pc = "done" =>
        /\ count_out = ClaimedCount(count_text)
        /\ count_text = <<"1", "5", " ", "C", "o", "m", "m", "e", "n", "t", "s">>
             => count_out = Some(15)

-----------------------------------------------------------------------------
(* Properties of _parse_engagement, checked under SpecEngagement *)

Readable(i) == ~nodes[i].raises

TextOf(i) == strip(nodes[i].inner_text)

\* The nodes read so far whose text contains the keyword kw.
Matching(kw) == { i \in 1..node_idx : Readable(i) /\ Contains(lower(TextOf(i)), kw) }

Last(S) == CHOOSE i \in S : \A j \in S : j <= i

ParsedOfLast(S) == IF S = {} THEN None ELSE _parse_engagement_number(TextOf(Last(S)))

\* C9 (as claimed): each category's count is the parsed count of the last
\* fragment that contains the category's keyword; a later matching
\* fragment always overwrites an earlier one.
C9_LastMatchingWins ==
    eng_pc = "done" =>
        /\ likes = ParsedOfLast(Matching(KwLike))
        /\ comments = ParsedOfLast(Matching(KwComment))
        /\ shares = ParsedOfLast(Matching(KwShare))

\* The category of a text: the first of like, comment, share it contains.
CategoryOf(txt) ==
    CHOOSE c \in {"like", "comment", "share", "none"} :
        \/ c = "like" /\ Contains(lower(txt), KwLike)
        \/ c = "comment" /\ ~Contains(lower(txt), KwLike) /\ Contains(lower(txt), KwComment)
        \/ c = "share" /\ ~Contains(lower(txt), KwLike) /\ ~Contains(lower(txt), KwComment)
                        /\ Contains(lower(txt), KwShare)
        \/ c = "none" /\ ~Contains(lower(txt), KwLike) /\ ~Contains(lower(txt), KwComment)
                       /\ ~Contains(lower(txt), KwShare)

\* The nodes read so far that belong to category c and parse to a number.
Counting(c) ==
    { i \in 1..node_idx :
        /\ Readable(i)
        /\ CategoryOf(TextOf(i)) = c
        /\ _parse_engagement_number(TextOf(i)) # None }

\* C9 (amended): each category's count is the parsed count of the last
\* readable fragment that belongs to the category (the first of like,
\* comment, share its text contains, case-insensitively) and whose parsed
\* count is not null; it is null when there is no such fragment.
C9_LastCountingWins ==
    /\ likes = ParsedOfLast(Counting("like"))
    /\ comments = ParsedOfLast(Counting("comment"))
    /\ shares = ParsedOfLast(Counting("share"))

\* A like fragment with a number was followed by a like fragment without
\* one, and by a fragment holding two keywords; the loop has returned.
C9_Witness ==
    /\ eng_pc = "done"
    /\ Len(nodes) = 3
    /\ likes # None
    /\ \E i, j, k \in DOMAIN nodes :
          /\ i < j
          /\ Readable(i) /\ Readable(j) /\ Readable(k)
          /\ i \in Counting("like")
          /\ j \in Matching(KwLike) \ Counting("like")
          /\ k \in Matching(KwLike) \cap Matching(KwComment)

-----------------------------------------------------------------------------
(* Properties of the timestamp, checked under SpecTime *)

DigitOnly(s) == s # <<>> /\ \A i \in DOMAIN s : s[i] \in Digits

\* C10 (as claimed): when the time node carries a data-utime attribute that
\* is a non-empty string of digits, the record's timestamp is the integer
\* value of that attribute, never the extraction-time stand-in.
C10_UtimePreferred ==
    ( /\ time_pc = "done"
      /\ time_node.found
      /\ ~time_node.data_utime.raises
      /\ time_node.data_utime.value # None
      /\ DigitOnly(time_node.data_utime.value[1]) )
        => timestamp = Some(DecimalValue(time_node.data_utime.value[1]))

-----------------------------------------------------------------------------
(* Properties of run_scraper, checked under SpecRun *)

Occurs(e) == \E i \in DOMAIN events : events[i] = e

Before(e1, e2) ==
    \A i \in DOMAIN events : events[i] = e2 => \E j \in 1..(i - 1) : events[j] = e1

LeftRunScraper == run_pc \in {"raised", "main_raised", "main_interrupted"}

ScrapeRaised == Occurs("scrape_search") /\ run_pc # "scrape" /\ run_posts = None

====
